---------------------------- MODULE Spec2Model ----------------------------
(***************************************************************************)
(* Model of the Bluesky syndicator: src/lib/utils.js (text composition,    *)
(* image compression) and src/lib/bluesky.js (the post() dispatcher).      *)
(*                                                                         *)
(* Strings are sequences of UTF-16 code units; each code unit is a         *)
(* one-element token such as "a", " " or "\n".                             *)
(***************************************************************************)
EXTENDS Integers, Sequences, FiniteSets, TLC

Max(a, b) == IF a >= b THEN a ELSE b
Min(a, b) == IF a <= b THEN a ELSE b

(***************************************************************************)
(* JavaScript string primitives used by utils.js.                          *)
(***************************************************************************)
Repeat(c, n) == [i \in 1..n |-> c]

\* String.prototype.slice(0, end): a negative end counts from the end.
SliceTo(s, end) ==
  LET e == IF end < 0 THEN Max(Len(s) + end, 0) ELSE Min(end, Len(s))
  IN  SubSeq(s, 1, e)

IsSpace(c) == c \in {" ", "\n", "\t"}

RECURSIVE TrimStart(_)
TrimStart(s) ==
  IF s # <<>> /\ IsSpace(Head(s)) THEN TrimStart(Tail(s)) ELSE s

RECURSIVE TrimEnd(_)
TrimEnd(s) ==
  IF s # <<>> /\ IsSpace(s[Len(s)])
    THEN TrimEnd(SubSeq(s, 1, Len(s) - 1))
    ELSE s

\* String.prototype.trim(): drops leading and trailing white space.
Trim(s) == TrimEnd(TrimStart(s))

\* The 1-based positions at which sub occurs in s.
Occurrences(s, sub) ==
  {i \in 1..(Len(s) - Len(sub) + 1) : SubSeq(s, i, i + Len(sub) - 1) = sub}

\* String.prototype.includes(sub).
Includes(s, sub) == Occurrences(s, sub) # {}

\* String.prototype.replace(sub, ""): removes the first occurrence only.
RemoveFirst(s, sub) ==
  LET occ == Occurrences(s, sub)
  IN  IF occ = {} \/ sub = <<>> THEN s
      ELSE LET i == CHOOSE k \in occ : \A j \in occ : k <= j
           IN  SubSeq(s, 1, i - 1) \o SubSeq(s, i + Len(sub), Len(s))

EndsWith(s, suffix) ==
  /\ Len(s) >= Len(suffix)
  /\ SubSeq(s, Len(s) - Len(suffix) + 1, Len(s)) = suffix

(***************************************************************************)
(* Text composition: getPostText, getLikePostText, htmlToStatusText.       *)
(***************************************************************************)
\* The Bluesky character limit the code truncates to.
MaxTextLength == 300

Ellipsis == <<".", ".", ".">>
Blank == <<"\n", "\n">>
\* The heart emoji is two UTF-16 code units (U+2764 U+FE0F).
Heart == <<"U+2764", "U+FE0F">>

\* HTML content is held parsed: whether the html string is non-empty, the
\* plain text html-to-text renders from it (anchor text kept, hrefs ignored,
\* images skipped) and the hrefs matched in it, in source order.
htmlToStatusText(html) ==
  IF Len(html.hrefs) > 0
    THEN html.rendered \o <<" ">> \o html.hrefs[Len(html.hrefs)]
    ELSE html.rendered

\* JavaScript truthiness of an optional string: an absent string is held as
\* the empty one, and both are falsy.
Truthy(s) == s # <<>>

NoHtml == [present |-> FALSE, rendered |-> <<>>, hrefs |-> <<>>]

\* properties.content?.html and properties.content?.text: an absent content
\* object reads as an absent (falsy) html and text.
NoContent == [present |-> FALSE, html |-> NoHtml, text |-> <<>>]

ContentHtml(properties) == properties.content.html

ContentText(properties) == properties.content.text

\* The text getPostText starts from, before truncation or permalink.
PostSourceText(properties) ==
  IF Truthy(properties.name)
    THEN properties.name \o <<" ">> \o properties.url
  ELSE IF ContentHtml(properties).present
    THEN htmlToStatusText(ContentHtml(properties))
  ELSE IF Truthy(ContentText(properties))
    THEN ContentText(properties)
  ELSE <<>>

PostSuffix(properties) == Blank \o properties.url

\* Mutant: the cut content is not trimmed.
TruncatePostTextUntrimmed(text, suffix) ==
  SliceTo(text, MaxTextLength - Len(suffix) - 3) \o Ellipsis \o suffix

TruncatePostText(text, suffix) ==
  LET maxLen == MaxTextLength - Len(suffix) - 3
  IN  Trim(SliceTo(text, maxLen)) \o Ellipsis \o suffix

AppendPermalink(text, url) == text \o Blank \o url

getPostText(properties, includePermalink) ==
  LET text == PostSourceText(properties)
  IN  IF Len(text) > MaxTextLength
        THEN TruncatePostText(text, PostSuffix(properties))
      ELSE IF includePermalink /\ ~Includes(text, properties.url)
        THEN AppendPermalink(text, properties.url)
      ELSE text

\* The content or comment getLikePostText starts from.
LikeContentText(properties) ==
  IF ContentHtml(properties).present
    THEN htmlToStatusText(ContentHtml(properties))
  ELSE IF Truthy(ContentText(properties))
    THEN ContentText(properties)
  ELSE <<>>

LikeSuffix(likedUrl) == Blank \o Heart \o <<" ">> \o likedUrl

\* The text getLikePostText holds before its truncation step.
LikeSourceText(properties, likedUrl) ==
  LET text == LikeContentText(properties)
  IN  IF text # <<>>
        THEN IF ~Includes(text, likedUrl)
               THEN text \o LikeSuffix(likedUrl)
               ELSE text
        ELSE Heart \o <<" ">> \o likedUrl

TruncateLikeText(text, suffix) ==
  LET maxLen == MaxTextLength - Len(suffix) - 3
      contentPart == Trim(SliceTo(RemoveFirst(text, suffix), maxLen))
  IN  contentPart \o Ellipsis \o suffix

getLikePostText(properties, likedUrl) ==
  LET text == LikeSourceText(properties, likedUrl)
  IN  IF Len(text) > MaxTextLength
        THEN TruncateLikeText(text, LikeSuffix(likedUrl))
        ELSE text

(***************************************************************************)
(* Image compression: constrainImage and getPostImage.                     *)
(***************************************************************************)
\* constrainImage's default quality, and the step it lowers it by.
InitialQuality == 90
QualityStep == 5

\* sharp(buffer).jpeg({ quality }) takes an integer quality from 1 to 100 and
\* throws on any other value.
JpegQualityAccepted(quality) == quality >= 1 /\ quality <= 100

\* Mutant: the quality is lowered by one instead of five.
LowerQualityByOne(quality) == quality - 1

\* The quality constrainImage recurses with.
LowerQuality(quality) == quality - QualityStep

\* getPostImage's MAX_SIZE, 1024 * 1024.
MAX_SIZE == 1048576

\* Bound on the byte budgets and encoder output sizes tried on constrainImage.
MaxBudget == 3

Budgets == 1..MaxBudget

\* The byte length of an encoder output: any positive size, whatever the
\* quality (the encoder is outside the code).
OutputSizes == 1..(MaxBudget + 1)

(***************************************************************************)
(* The dispatcher, Bluesky.post(), and the helpers it calls.               *)
(*                                                                         *)
(* URLs are opaque strings here; "" stands for an absent (falsy) value.    *)
(***************************************************************************)
ProfileUrl == "https://bsky.app/profile"
OwnTarget == "https://bsky.app/profile/did:plc:a/post/k"
ExtTarget == "https://other.example/post"
Bookmarked == "https://news.example/story"
ReplyTarget == "https://c.example/r"
ContentLink == "https://a.example/x"
Permalink == "https://me.example/p1"

\* new URL(url).origin of the URLs above.
Origin(url) ==
  CASE url \in {ProfileUrl, OwnTarget} -> "https://bsky.app"
    [] url = ExtTarget -> "https://other.example"
    [] url = Bookmarked -> "https://news.example"
    [] url = ReplyTarget -> "https://c.example"
    [] url = ContentLink -> "https://a.example"
    [] url = Permalink -> "https://me.example"
    [] OTHER -> "invalid"

\* isSameOrigin of @indiekit/util, as post() uses it.
isSameOrigin(a, b) == Origin(a) # "invalid" /\ Origin(a) = Origin(b)

\* [...new Set(urls)]: each URL kept at its first position.
RECURSIVE Dedupe(_)
Dedupe(urls) ==
  IF urls = <<>> THEN <<>>
  ELSE LET front == Dedupe(SubSeq(urls, 1, Len(urls) - 1))
           last == urls[Len(urls)]
       IN  IF \E i \in 1..Len(front) : front[i] = last
             THEN front
             ELSE Append(front, last)

\* The URLs getExternalUrl collects from the content: anchor hrefs, bare
\* URLs in the HTML, bare URLs in the plain text.
CollectedUrls(properties) ==
  properties.content.hrefUrls \o properties.content.htmlUrls
    \o properties.content.textUrls

\* Mutant: bookmark-of is tested before like-of.
getExternalUrlBookmarkFirst(properties) ==
  IF properties.bookmarkOf # "" THEN properties.bookmarkOf
  ELSE IF properties.likeOf # "" THEN properties.likeOf
  ELSE IF properties.inReplyTo # "" THEN properties.inReplyTo
  ELSE LET urls == Dedupe(CollectedUrls(properties))
       IN  IF Len(urls) = 0 THEN "" ELSE urls[Len(urls)]

\* getExternalUrl(properties), called without ownDomain as post() does.
getExternalUrl(properties) ==
  IF properties.likeOf # "" THEN properties.likeOf
  ELSE IF properties.bookmarkOf # "" THEN properties.bookmarkOf
  ELSE IF properties.inReplyTo # "" THEN properties.inReplyTo
  ELSE LET urls == Dedupe(CollectedUrls(properties))
       IN  IF Len(urls) = 0 THEN "" ELSE urls[Len(urls)]

\* photos = properties.photo.slice(0, 4)
MaxImages == 4

PhotoBatch(properties) == Min(properties.nPhotos, MaxImages)

\* Marks a call that throws where a byte length is returned otherwise.
Throws == -1

\* Byte lengths tried for fetched images and encoder outputs: just under,
\* at and just over MAX_SIZE.
ImageSizes == {MAX_SIZE - 1, MAX_SIZE, MAX_SIZE + 1}

\* The outcomes of constrainImage(buffer, maxBytes, quality): the byte length
\* of the buffer it returns, or Throws.
RECURSIVE constrainImage(_, _)
constrainImage(maxBytes, quality) ==
  IF ~JpegQualityAccepted(quality) THEN {Throws}
  ELSE {c \in ImageSizes : c <= maxBytes}
         \cup (IF \E c \in ImageSizes : c > maxBytes
                 THEN constrainImage(maxBytes, LowerQuality(quality))
                 ELSE {})

\* The outcomes of getPostImage(buffer, mimeType) on a buffer of length len.
getPostImage(len) ==
  IF len < MAX_SIZE THEN {len} ELSE constrainImage(MAX_SIZE, InitialQuality)

\* A blob handed to uploadBlob: where it came from, whether its encoding is
\* image/*, whether it went through getPostImage, and its byte length.
NoBlob ==
  [src |-> "none", image |-> FALSE, viaGetPostImage |-> FALSE, bytes |-> 0]

Blob(src, image, via, bytes) ==
  [src |-> src, image |-> image, viaGetPostImage |-> via, bytes |-> bytes]

NoEmbed ==
  [type |-> "none", uri |-> "", title |-> "", description |-> "",
   thumb |-> "none", images |-> 0]

\* Mutant: the external card takes priority over the images.
SelectEmbedCardFirst(images, externalEmbed) ==
  IF externalEmbed.type # "none" THEN externalEmbed
  ELSE IF images > 0
    THEN [NoEmbed EXCEPT !.type = "app.bsky.embed.images", !.images = images]
  ELSE NoEmbed

\* postPost's embed: images take priority over the external card.
SelectEmbed(images, externalEmbed) ==
  IF images > 0
    THEN [NoEmbed EXCEPT !.type = "app.bsky.embed.images", !.images = images]
  ELSE IF externalEmbed.type # "none" THEN externalEmbed
  ELSE NoEmbed

\* postQuotePost's embed: record with media when images were uploaded.
QuoteEmbed(postUrl, images) ==
  IF images > 0
    THEN [NoEmbed EXCEPT !.type = "app.bsky.embed.recordWithMedia",
                         !.uri = postUrl, !.images = images]
    ELSE [NoEmbed EXCEPT !.type = "app.bsky.embed.record", !.uri = postUrl]

\* The uri of a backend response: a record URI, or (the backend is outside
\* the code) a string that AT_URI does not match.
AtUri == "at://did:plc:a/app.bsky.feed.post/k"

BackendUris == {AtUri, "urn:not-an-at-uri"}

\* uriToPostUrl(profileUrl, uri): the post URL when uri matches AT_URI,
\* undefined otherwise.
uriToPostUrl(profileUrl, uri) ==
  IF uri = AtUri THEN "https://bsky.app/profile/did:plc:a/post/k"
  ELSE "undefined"

\* fetchOpenGraphData's fallback value: the URL as title, nothing else.
OgFallback(url) == [title |-> url, description |-> "", imageUrl |-> ""]

\* What fetchOpenGraphData(url) can return from a page that was fetched.
OgFromPage(url) ==
  {[title |-> t, description |-> d, imageUrl |-> i] :
     t \in {url, "Page title"}, d \in {"", "Page description"},
     i \in {"", "https://news.example/og.png"}}

\* createExternalEmbed's returned embed.
ExternalCard(url, ogData, thumb) ==
  [type |-> "app.bsky.embed.external", uri |-> url,
   title |-> IF ogData.title # "" THEN ogData.title ELSE url,
   description |-> ogData.description, thumb |-> thumb, images |-> 0]

\* createExternalEmbed's condition for generating a default thumbnail.
WantsDefaultThumb(url, ogData, thumb) ==
  thumb = "none" /\ ogData.title # "" /\ ogData.title # url

(***************************************************************************)
(* Bounded inputs of post().                                               *)
(***************************************************************************)
\* Bound on the number of photos a post supplies (one more than the batch).
MaxPhotos == 5

NoUrls == [hrefUrls |-> <<>>, htmlUrls |-> <<>>, textUrls |-> <<>>]

\* properties.content: absent; present with empty html and text; a plain
\* commentary; a commentary that links to ContentLink.
PostContents ==
  {[present |-> FALSE, filled |-> FALSE] @@ NoUrls,
   [present |-> TRUE, filled |-> FALSE] @@ NoUrls,
   [present |-> TRUE, filled |-> TRUE] @@ NoUrls,
   [present |-> TRUE, filled |-> TRUE]
     @@ [NoUrls EXCEPT !.textUrls = <<ContentLink>>]}

\* in-reply-to is read by getExternalUrl only, which post() calls for a
\* post without repost-of, like-of and bookmark-of.
PostProperties ==
  {p \in [repostOf : {"", OwnTarget, ExtTarget},
          likeOf : {"", OwnTarget, ExtTarget},
          bookmarkOf : {"", Bookmarked},
          inReplyTo : {"", ReplyTarget},
          content : PostContents,
          url : {Permalink},
          nPhotos : 0..MaxPhotos] :
     p.inReplyTo # "" =>
       p.repostOf = "" /\ p.likeOf = "" /\ p.bookmarkOf = ""}

\* The options the constructor stores; an option that the properties never
\* let post() read is left at its default (true).
PostOptions(properties) ==
  {[syndicateExternalLikes |-> l, syndicateExternalReposts |-> r] :
     l \in IF properties.likeOf = ExtTarget /\ properties.repostOf = ""
             THEN BOOLEAN ELSE {TRUE},
     r \in IF properties.repostOf = ExtTarget THEN BOOLEAN ELSE {TRUE}}

(***************************************************************************)
(* The URL harvester: extractUrlsFromText and the scans of getExternalUrl. *)
(*                                                                         *)
(* Content is a sequence of tokens; each token is a run of characters that *)
(* both regular expressions treat as a whole.                              *)
(***************************************************************************)
Scheme == "https://"
HrefEq == "<a href="
Quote == "\""
CloseTag == ">x</a>"
Space == " "
Dot == "."
Paren == ")"

\* The string a token sequence spells.
RECURSIVE Join(_)
Join(tokens) ==
  IF tokens = <<>> THEN "" ELSE Head(tokens) \o Join(Tail(tokens))

\* The tokens [^\s<>"')\]] excludes (each starts with an excluded character).
UrlStops == {Space, HrefEq, Quote, CloseTag, Paren}

\* The tokens [.,;:!?)] matches.
TrailingPunctuation == {Dot, Paren}

\* The last position of the longest run of tokens outside stops that starts
\* at i; i - 1 when the run is empty.
RECURSIVE RunEnd(_, _, _)
RunEnd(s, i, stops) ==
  IF i > Len(s) \/ s[i] \in stops THEN i - 1 ELSE RunEnd(s, i + 1, stops)

\* url.replace(/[.,;:!?)]+$/, "").replace(/\)+$/, ""): the second replace
\* finds nothing once the first has run.
RECURSIVE StripTrailingPunctuation(_)
StripTrailingPunctuation(url) ==
  IF url # <<>> /\ url[Len(url)] \in TrailingPunctuation
    THEN StripTrailingPunctuation(SubSeq(url, 1, Len(url) - 1))
    ELSE url

\* text.match(/https?:\/\/[^\s<>"')\]]+/gi) from position i on, each match
\* cleaned of its trailing punctuation.
RECURSIVE UrlMatches(_, _)
UrlMatches(s, i) ==
  IF i > Len(s) THEN <<>>
  ELSE LET j == RunEnd(s, i + 1, UrlStops)
       IN  IF s[i] = Scheme /\ j > i
             THEN <<Join(StripTrailingPunctuation(SubSeq(s, i, j)))>>
                    \o UrlMatches(s, j + 1)
             ELSE UrlMatches(s, i + 1)

extractUrlsFromText(text) == UrlMatches(text, 1)

\* html.matchAll(/href=["'](https?:\/\/[^"']+)["']/gi) from position i on:
\* the captured groups.
RECURSIVE HrefMatches(_, _)
HrefMatches(s, i) ==
  IF i + 4 > Len(s) THEN <<>>
  ELSE LET j == RunEnd(s, i + 3, {Quote})
       IN  IF /\ s[i] = HrefEq
              /\ s[i + 1] = Quote
              /\ s[i + 2] = Scheme
              /\ j >= i + 3
              /\ j < Len(s)
             THEN <<Join(SubSeq(s, i + 2, j))>> \o HrefMatches(s, j + 2)
             ELSE HrefMatches(s, i + 1)

\* The properties getExternalUrl reads, with the three scans of the content
\* made: anchor hrefs, bare URLs of the HTML, bare URLs of the plain text.
HarvestProperties(p) ==
  [likeOf |-> p.likeOf, bookmarkOf |-> p.bookmarkOf,
   inReplyTo |-> p.inReplyTo,
   content |-> [present |-> TRUE,
                filled |-> p.html # <<>> \/ p.text # <<>>,
                hrefUrls |-> HrefMatches(p.html, 1),
                htmlUrls |-> extractUrlsFromText(p.html),
                textUrls |-> extractUrlsFromText(p.text)]]

(***************************************************************************)
(* Bounded inputs of the URL harvester.                                    *)
(***************************************************************************)
\* Pieces (words, bare URLs, anchors) in the HTML and in the plain text.
MaxHtmlPieces == 2
MaxTextPieces == 1

\* What follows the scheme in a URL: plain, with a closing parenthesis, and
\* with a final dot.
UrlTails == {<<"a">>, <<"b">>, <<"a", Paren>>, <<"a", Dot>>}

BareUrl(tail) == <<Scheme>> \o tail

Anchor(tail) == <<HrefEq, Quote, Scheme>> \o tail \o <<Quote, CloseTag>>

TextPieces == {<<"a">>} \cup {BareUrl(t) : t \in UrlTails}

HtmlPieces == TextPieces \cup {Anchor(t) : t \in UrlTails}

\* Up to n pieces separated by spaces.
RECURSIVE Contents(_, _)
Contents(pieces, n) ==
  IF n = 0 THEN {<<>>}
  ELSE LET shorter == Contents(pieces, n - 1)
       IN  shorter \cup {IF c = <<>> THEN q ELSE c \o <<Space>> \o q :
                           c \in shorter, q \in pieces}

HarvestInputs ==
  [likeOf : {"", ExtTarget}, bookmarkOf : {"", Bookmarked},
   inReplyTo : {"", ReplyTarget},
   html : Contents(HtmlPieces, MaxHtmlPieces),
   text : Contents(TextPieces, MaxTextPieces)]

(***************************************************************************)
(* fetchOpenGraphData(url).                                                *)
(*                                                                         *)
(* A string is held as where it comes from and how long it is.             *)
(***************************************************************************)
TitleLimit == 300
DescriptionLimit == 1000

Str(src, len) == [src |-> src, len |-> len]

EmptyStr == Str("empty", 0)

\* s.slice(0, limit)
SliceStr(s, limit) == Str(s.src, Min(s.len, limit))

\* a || b on strings: the empty string is falsy.
OrElse(a, b) == IF a.len > 0 THEN a ELSE b

\* The catch block's value, also returned for a response that is not ok.
OgMetadataFallback(urlLen) ==
  [title |-> Str("url", urlLen), description |-> EmptyStr,
   imageUrl |-> "null"]

\* What the selectors find in a page: the content of og:title, of <title>,
\* of og:description and of the description meta tag (0 when missing), and
\* the kind of og:image.
NoPage ==
  [ogTitle |-> 0, title |-> 0, ogDescription |-> 0, metaDescription |-> 0,
   ogImage |-> "none"]

\* The value returned from a parsed page.
OgMetadataOfPage(urlLen, page) ==
  [title |-> SliceStr(OrElse(Str("og:title", page.ogTitle),
                        OrElse(Str("title", page.title),
                               Str("url", urlLen))), TitleLimit),
   description |-> SliceStr(OrElse(Str("og:description", page.ogDescription),
                              OrElse(Str("description", page.metaDescription),
                                     EmptyStr)), DescriptionLimit),
   imageUrl |-> CASE page.ogImage = "none" -> "null"
                  [] page.ogImage = "absolute" -> "absolute"
                  [] OTHER -> "resolved"]

\* Mutant: the catch block lets the error through.
OgCatchRethrows(urlLen) ==
  [pc |-> "raised", result |-> OgMetadataFallback(urlLen)]

\* The catch block: the error is logged and the fallback value returned.
OgCatch(urlLen) ==
  [pc |-> "returned", result |-> OgMetadataFallback(urlLen)]

(***************************************************************************)
(* Bounded inputs of fetchOpenGraphData.                                   *)
(***************************************************************************)
\* How far over the limits the lengths of the url and of the page fields go.
TitleOver == 1
DescriptionOver == 1

\* Lengths around a limit: missing, short, and just under to over the limit.
OgLens(limit, over) == {0, 1} \cup ((limit - 1)..(limit + over))

OgUrlLens == OgLens(TitleLimit, TitleOver) \ {0}

\* og:image is missing, an absolute URL, a relative URL, or a value that
\* new URL(ogImage, origin) rejects.
OgPages ==
  [ogTitle : OgLens(TitleLimit, TitleOver),
   title : OgLens(TitleLimit, TitleOver),
   ogDescription : OgLens(DescriptionLimit, DescriptionOver),
   metaDescription : OgLens(DescriptionLimit, DescriptionOver),
   ogImage : {"none", "absolute", "relative", "malformed"}]

(***************************************************************************)
(* wrapText(text, maxCharsPerLine = 35, maxLines = 4).                     *)
(*                                                                         *)
(* The title is held as its words, text.split(/\s+/); a word and a line    *)
(* are sequences of characters.                                            *)
(***************************************************************************)
MaxCharsPerLine == 35
MaxLines == 4

\* lines.join(" ").split(/\s+/).length, for lines that neither start nor
\* end with a space; "".split(/\s+/) has one element.
RECURSIVE WordCount(_)
WordCount(lines) ==
  IF lines = <<>> THEN 1
  ELSE LET line == lines[Len(lines)]
           here == Cardinality({i \in 1..Len(line) : line[i] = Space}) + 1
       IN  IF Len(lines) = 1 THEN here
           ELSE here + WordCount(SubSeq(lines, 1, Len(lines) - 1))

\* The for loop from the i-th word on, with the lines pushed so far and the
\* current line: the lines and the current line when the loop ends.
RECURSIVE WrapLoop(_, _, _, _)
WrapLoop(words, i, lines, currentLine) ==
  IF i > Len(words) \/ Len(lines) >= MaxLines
    THEN [lines |-> lines, currentLine |-> currentLine]
  ELSE LET word == words[i]
           testLine == IF currentLine # <<>>
                         THEN currentLine \o <<Space>> \o word
                         ELSE word
       IN  IF Len(testLine) <= MaxCharsPerLine
             THEN WrapLoop(words, i + 1, lines, testLine)
           ELSE IF currentLine # <<>>
             THEN WrapLoop(words, i + 1, Append(lines, currentLine), word)
           ELSE WrapLoop(words, i + 1,
                         Append(lines, SliceTo(word, MaxCharsPerLine - 3)
                                         \o Ellipsis),
                         <<>>)

\* The ellipsis put on the last line when words were left out.
EllipsizeLast(words, lines) ==
  IF Len(lines) = MaxLines /\ Len(words) > WordCount(lines)
    THEN LET lastLine == lines[MaxLines]
         IN  IF Len(lastLine) > MaxCharsPerLine - 3
               THEN [lines EXCEPT ![MaxLines] =
                       SliceTo(lastLine, MaxCharsPerLine - 3) \o Ellipsis]
             ELSE IF ~EndsWith(lastLine, Ellipsis)
               THEN [lines EXCEPT ![MaxLines] = lastLine \o Ellipsis]
             ELSE lines
    ELSE lines

wrapText(words) ==
  LET loop == WrapLoop(words, 1, <<>>, <<>>)
      lines == IF loop.currentLine # <<>> /\ Len(loop.lines) < MaxLines
                 THEN Append(loop.lines, loop.currentLine)
                 ELSE loop.lines
  IN  EllipsizeLast(words, lines)

(***************************************************************************)
(* Bounded inputs of wrapText.                                             *)
(***************************************************************************)
\* Words in a title, and how far over a line the longest word goes.
MaxWords == 5
WordOver == 1

\* Two words of 17 characters fill a line; a word of 32 leaves room for an
\* ellipsis; a word of 35 fills a line; a longer one cannot fit.
WordLens ==
  {17, MaxCharsPerLine - 3, MaxCharsPerLine, MaxCharsPerLine + WordOver}

WordOf(n) == Repeat("a", n)

\* split(/\s+/) gives an empty first (last) word for a title that starts
\* (ends) with white space, and no empty word elsewhere.
RECURSIVE WordLists(_)
WordLists(n) ==
  IF n = 0 THEN {<<>>}
  ELSE LET shorter == WordLists(n - 1)
       IN  shorter \cup {Append(ws, WordOf(k)) : ws \in shorter, k \in WordLens}

Titles ==
  {lead \o ws \o trail :
     lead \in {<<>>, <<WordOf(0)>>},
     ws \in WordLists(MaxWords) \ {<<>>},
     trail \in {<<>>, <<WordOf(0)>>}}
    \cup {<<WordOf(0)>>}

(***************************************************************************)
(* Bounded inputs of the text composer.                                    *)
(***************************************************************************)
ShortUrlLen == 20
UrlOver == 4
Slack == 2

\* URL lengths: a short one, the two at which the cut length reaches 0
\* (like marker, permalink), and one longer than the limit leaves room for.
UrlLens ==
  {ShortUrlLen, MaxTextLength - 8, MaxTextLength - 5,
   MaxTextLength - 5 + UrlOver}

Url(len) == <<"h">> \o Repeat("u", len - 1)

Urls == {Url(l) : l \in UrlLens}

TextLens ==
  {0, 1} \cup ((MaxTextLength - Slack)..(MaxTextLength + Slack))

\* Where a space may sit: nowhere (0), at the head, or right at a cut point.
SpacePositions ==
  {0, 1} \cup {p \in {MaxTextLength - 5 - l : l \in UrlLens}
                    \cup {MaxTextLength - 8 - l : l \in UrlLens} : p > 0}

\* n letters, with a space in place of the k-th when 1 <= k <= n.
Body(n, k) == [i \in 1..n |-> IF i = k THEN " " ELSE "a"]

Bodies == {Body(n, k) : n \in TextLens, k \in SpacePositions}

PlainBodies == {Body(n, 0) : n \in TextLens}

HtmlInputs ==
  {[present |-> TRUE, rendered |-> b, hrefs |-> h] :
     b \in PlainBodies, h \in {<<>>} \cup {<<u>> : u \in Urls}}

ContentInputs ==
  {NoContent}
    \cup {[present |-> TRUE, html |-> NoHtml, text |-> b] : b \in Bodies}
    \cup {[present |-> TRUE, html |-> NoHtml, text |-> b \o <<" ">> \o u] :
            b \in {Body(1, 0), Body(MaxTextLength, 0)}, u \in Urls}
    \cup {[present |-> TRUE, html |-> h, text |-> Body(1, 0)] :
            h \in HtmlInputs}

NameInputs == {Body(3, 0), Body(MaxTextLength, 0)}

\* Notes (no name) over every content, and articles (a name) over a few.
TextProperties ==
  {[name |-> <<>>, content |-> c, url |-> u] : c \in ContentInputs, u \in Urls}
    \cup {[name |-> n, content |-> c, url |-> u] :
            n \in NameInputs,
            c \in {NoContent,
                   [present |-> TRUE, html |-> NoHtml, text |-> Body(1, 0)]},
            u \in Urls}

VARIABLES
  tProps,      \* the JF2 properties handed to the text composer
  tInclude,    \* the includePermalink option
  tLiked,      \* the liked URL handed to getLikePostText (<<>> before)
  tOp,         \* "none", "post" (getPostText ran) or "like"
  tSource,     \* the text before truncation / permalink
  tResult      \* the composed text (<<>> before the call)

VARIABLES
  iMaxBytes,   \* constrainImage's maxBytes
  iQuality,    \* the quality of the current constrainImage call
  iPc,         \* "idle", "encode", "returned" or "raised"
  iSize,       \* byteLength of the last encoder output (0 before any)
  iEncodes     \* number of re-encodes made so far

VARIABLES
  props,       \* the JF2 properties handed to post()
  options,     \* the syndicator's options
  pc,          \* where post() stands
  upc,         \* where each uploadMedia call of the batch stands
  logins,      \* agent.login calls made so far
  nBlobs,      \* uploadBlob calls that succeeded so far
  lastBlob,    \* the blob of the latest uploadBlob call
  branch,      \* the branch of the cascade post() took
  textPolicy,  \* the function that composed the text
  cardUrl,     \* the URL createExternalEmbed is called with
  ogData,      \* what fetchOpenGraphData returned
  thumb,       \* createExternalEmbed's thumb: "none", "og" or "default"
  externalEmbed, \* what createExternalEmbed returned
  sent,        \* the embed and text policy of the post handed to client.post
  actions,     \* how many posts, likes and reposts the backend accepted
  failures,    \* the calls that failed so far
  backendUri,  \* the uri of the backend's response ("" before it)
  result       \* "pending", "threw", "undefined" or the URL returned

VARIABLES
  hProps,      \* the properties handed to getExternalUrl (content as tokens)
  hPc,         \* "idle", "ready" or "done"
  hResult      \* what getExternalUrl returned ("" for null)

VARIABLES
  oUrl,        \* the url handed to fetchOpenGraphData
  oPc,         \* "idle", "fetch", "parse", "returned" or "raised"
  oOutcome,    \* how the fetch and the parse went ("none" before)
  oPage,       \* the page fields the parser found
  oResult      \* the Metadata returned

VARIABLES
  wTitle,      \* the title handed to wrapText, as its words
  wPc,         \* "idle", "ready" or "done"
  wLines       \* the lines wrapText returned

tvars == <<tProps, tInclude, tLiked, tOp, tSource, tResult>>

pvars ==
  <<props, options, pc, upc, logins, nBlobs, lastBlob, branch, textPolicy,
    cardUrl, ogData, thumb, externalEmbed, sent, actions, failures,
    backendUri, result>>

ivars == <<iMaxBytes, iQuality, iPc, iSize, iEncodes>>

hvars == <<hProps, hPc, hResult>>

ovars == <<oUrl, oPc, oOutcome, oPage, oResult>>

wvars == <<wTitle, wPc, wLines>>

\* The variables of the calls of single functions.
fvars == <<hvars, ovars, wvars>>

vars == <<tvars, ivars, pvars, fvars>>

\* The uploadMedia calls of the batch, counted by where they stand: awaiting
\* their login, awaiting the media transfer, returned, or thrown.
NoUploads == [login |-> 0, transfer |-> 0, done |-> 0, failed |-> 0]

NoActions == [posts |-> 0, likes |-> 0, reposts |-> 0]

NotSent == [kind |-> "none", textPolicy |-> "none", embed |-> NoEmbed]

\* The state of a post() call that has not started.
PostFresh ==
  /\ upc = NoUploads
  /\ logins = 0
  /\ nBlobs = 0
  /\ lastBlob = NoBlob
  /\ branch = "none"
  /\ textPolicy = "none"
  /\ cardUrl = ""
  /\ ogData = OgFallback("")
  /\ thumb = "none"
  /\ externalEmbed = NoEmbed
  /\ sent = NotSent
  /\ actions = NoActions
  /\ failures = {}
  /\ backendUri = ""
  /\ result = "pending"

PostIdle ==
  /\ props = [repostOf |-> "", likeOf |-> "", bookmarkOf |-> "",
              inReplyTo |-> "", content |-> [present |-> FALSE,
              filled |-> FALSE] @@ NoUrls, url |-> Permalink, nPhotos |-> 0]
  /\ options = [syndicateExternalLikes |-> TRUE,
                syndicateExternalReposts |-> TRUE]
  /\ PostFresh
  /\ pc = "idle"

HarvestIdle ==
  /\ hProps = [likeOf |-> "", bookmarkOf |-> "", inReplyTo |-> "",
               html |-> <<>>, text |-> <<>>]
  /\ hPc = "idle"
  /\ hResult = ""

OgIdle ==
  /\ oUrl = 0
  /\ oPc = "idle"
  /\ oOutcome = "none"
  /\ oPage = NoPage
  /\ oResult = OgMetadataFallback(0)

WrapIdle ==
  /\ wTitle = <<>>
  /\ wPc = "idle"
  /\ wLines = <<>>

FuncIdle == HarvestIdle /\ OgIdle /\ WrapIdle

ImageIdle ==
  /\ iMaxBytes = 1
  /\ iQuality = InitialQuality
  /\ iPc = "idle"
  /\ iSize = 0
  /\ iEncodes = 0

TextIdle ==
  /\ tProps = [name |-> <<>>, content |-> NoContent, url |-> Url(ShortUrlLen)]
  /\ tInclude = FALSE
  /\ tLiked = <<>>
  /\ tOp = "none"
  /\ tSource = <<>>
  /\ tResult = <<>>

InitText ==
  /\ tProps \in TextProperties
  /\ tInclude \in BOOLEAN
  /\ tLiked = <<>>
  /\ tOp = "none"
  /\ tSource = <<>>
  /\ tResult = <<>>
  /\ ImageIdle
  /\ PostIdle
  /\ FuncIdle

CallGetPostText ==
  /\ tOp = "none"
  /\ tOp' = "post"
  /\ tSource' = PostSourceText(tProps)
  /\ tResult' = getPostText(tProps, tInclude)
  /\ UNCHANGED <<tProps, tInclude, tLiked, ivars, pvars, fvars>>

CallGetLikePostText ==
  /\ tOp = "none"
  /\ \E likedUrl \in Urls :
       /\ tLiked' = likedUrl
       /\ tSource' = LikeSourceText(tProps, likedUrl)
       /\ tResult' = getLikePostText(tProps, likedUrl)
  /\ tOp' = "like"
  /\ UNCHANGED <<tProps, tInclude, ivars, pvars, fvars>>

NextText == CallGetPostText \/ CallGetLikePostText

SpecText == InitText /\ [][NextText]_vars

(***************************************************************************)
(* Bluesky.post(properties, me).                                           *)
(***************************************************************************)
InitPost ==
  /\ props \in PostProperties
  /\ options \in PostOptions(props)
  /\ pc = "start"
  /\ PostFresh
  /\ TextIdle
  /\ ImageIdle
  /\ FuncIdle

\* Mutant: the batch waits for every upload and ignores the failed ones
\* (Promise.allSettled).
PromiseAllSettled(u, k) ==
  IF u.done + u.failed = k THEN "fulfilled" ELSE "pending"

\* What Promise.all(uploads) has come to for a batch of k uploads.
PromiseAll(u, k) ==
  IF u.failed > 0 THEN "rejected"
  ELSE IF u.done = k THEN "fulfilled"
  ELSE "pending"

Fail(what) == failures' = failures \cup {what}

\* post() throws: the catch block rethrows the error.
PostThrows == pc' = "done" /\ result' = "threw"

\* const client = await this.#client(); then, with photos, the map that
\* starts every uploadMedia call of the batch.
Login ==
  /\ pc = "start"
  /\ logins' = logins + 1
  /\ \/ /\ Fail("login")
        /\ PostThrows
        /\ UNCHANGED upc
     \/ /\ pc' = "uploads"
        /\ upc' = [NoUploads EXCEPT !.login = PhotoBatch(props)]
        /\ UNCHANGED <<failures, result>>
  /\ UNCHANGED <<props, options, nBlobs, lastBlob, branch, textPolicy,
                 cardUrl, ogData, thumb, externalEmbed, sent, actions,
                 backendUri, tvars, ivars, fvars>>

\* uploadMedia, first await: its own login; then a photo whose url is not a
\* string returns undefined.
UploadLogin ==
  /\ upc.login > 0
  /\ logins' = logins + 1
  /\ \/ /\ upc' = [upc EXCEPT !.login = @ - 1, !.failed = @ + 1]
        /\ Fail("photo")
     \/ /\ upc' = [upc EXCEPT !.login = @ - 1, !.transfer = @ + 1]
        /\ UNCHANGED failures
     \/ /\ upc' = [upc EXCEPT !.login = @ - 1, !.done = @ + 1]
        /\ UNCHANGED failures
  /\ UNCHANGED <<props, options, pc, nBlobs, lastBlob, branch, textPolicy,
                 cardUrl, ogData, thumb, externalEmbed, sent, actions,
                 result, backendUri, tvars, ivars, fvars>>

\* The blobs uploadMedia may hand to uploadBlob for a fetched body of length
\* len: an image goes through getPostImage, anything else goes as fetched.
MediaBlobs(len, isImage) ==
  IF isImage
    THEN {Blob("photo", TRUE, TRUE, b) : b \in getPostImage(len) \ {Throws}}
    ELSE {Blob("photo", FALSE, FALSE, len)}

\* uploadMedia, the rest: fetch the media, compress an image, upload the
\* blob. Any failure on the way is rethrown.
UploadTransfer ==
  /\ upc.transfer > 0
  /\ \/ /\ upc' = [upc EXCEPT !.transfer = @ - 1, !.failed = @ + 1]
        /\ Fail("photo")
        /\ UNCHANGED <<nBlobs, lastBlob>>
     \/ \E len \in ImageSizes, isImage \in BOOLEAN :
          \E blob \in MediaBlobs(len, isImage) :
            /\ upc' = [upc EXCEPT !.transfer = @ - 1, !.done = @ + 1]
            /\ nBlobs' = nBlobs + 1
            /\ lastBlob' = blob
            /\ UNCHANGED failures
  /\ UNCHANGED <<props, options, pc, logins, branch, textPolicy, cardUrl,
                 ogData, thumb, externalEmbed, sent, actions, result,
                 backendUri, tvars, ivars, fvars>>

\* images = await Promise.all(uploads)
UploadsSettled ==
  /\ pc = "uploads"
  /\ \/ /\ PromiseAll(upc, PhotoBatch(props)) = "rejected"
        /\ PostThrows
     \/ /\ PromiseAll(upc, PhotoBatch(props)) = "fulfilled"
        /\ pc' = "dispatch"
        /\ UNCHANGED result
  /\ UNCHANGED <<props, options, upc, logins, nBlobs, lastBlob, branch,
                 textPolicy, cardUrl, ogData, thumb, externalEmbed, sent,
                 actions, failures, backendUri, tvars, ivars, fvars>>

\* images.length once Promise.all has fulfilled.
Images == upc.done

\* Mutant: external likes and reposts are syndicated whatever the options.
ClassifyIgnoringOptions(properties, opts) ==
  IF properties.repostOf # ""
    THEN IF isSameOrigin(properties.repostOf, ProfileUrl)
              /\ properties.content.present
           THEN "quote"
         ELSE IF isSameOrigin(properties.repostOf, ProfileUrl)
           THEN "repost"
         ELSE "externalRepost"
  ELSE IF properties.likeOf # ""
    THEN IF isSameOrigin(properties.likeOf, ProfileUrl) THEN "like"
         ELSE "externalLike"
  ELSE IF properties.bookmarkOf # "" THEN "bookmark"
  ELSE "regular"

\* if (repostUrl) ... if (likeOfUrl) ... if (bookmarkOfUrl) ...: the branch
\* of the cascade the properties and options select.
Classify(properties, opts) ==
  IF properties.repostOf # ""
    THEN IF isSameOrigin(properties.repostOf, ProfileUrl)
              /\ properties.content.present
           THEN "quote"
         ELSE IF isSameOrigin(properties.repostOf, ProfileUrl)
           THEN "repost"
         ELSE IF opts.syndicateExternalReposts THEN "externalRepost"
         ELSE "noop"
  ELSE IF properties.likeOf # ""
    THEN IF isSameOrigin(properties.likeOf, ProfileUrl) THEN "like"
         ELSE IF opts.syndicateExternalLikes THEN "externalLike"
         ELSE "noop"
  ELSE IF properties.bookmarkOf # "" THEN "bookmark"
  ELSE "regular"

\* The function post() composes the text with on each branch.
TextPolicyOf(b) ==
  CASE b = "quote" -> "getPostText"
    [] b = "externalRepost" -> "getRepostPostText"
    [] b = "externalLike" -> "getLikePostText"
    [] b = "bookmark" -> "getBookmarkPostText"
    [] b = "regular" -> "buildPostText"
    [] OTHER -> "none"

\* Mutant: a regular post without an external URL gets no card.
CardUrlOfNoFallback(b, properties, images) ==
  CASE b = "externalRepost" -> properties.repostOf
    [] b = "externalLike" -> properties.likeOf
    [] b = "bookmark" -> properties.bookmarkOf
    [] b = "regular" -> IF images > 0 THEN "" ELSE getExternalUrl(properties)
    [] OTHER -> ""

\* The URL post() calls createExternalEmbed with on each branch ("" when it
\* does not call it).
CardUrlOf(b, properties, images) ==
  CASE b = "externalRepost" -> properties.repostOf
    [] b = "externalLike" -> properties.likeOf
    [] b = "bookmark" -> properties.bookmarkOf
    [] b = "regular" ->
         IF images > 0 THEN ""
         ELSE IF getExternalUrl(properties) # ""
           THEN getExternalUrl(properties)
         ELSE properties.url
    [] OTHER -> ""

\* Where post() goes after classifying: a native action, the card builder,
\* postPost, or straight back to the caller.
AfterDispatch(b, url) ==
  CASE b \in {"quote", "repost", "like"} -> b
    [] b = "noop" -> "done"
    [] url # "" -> "card"
    [] OTHER -> "send"

\* The cascade of post(): classify, compose the text, pick the card URL.
Dispatch ==
  /\ pc = "dispatch"
  /\ LET b == Classify(props, options)
         url == CardUrlOf(b, props, Images)
     IN  /\ branch' = b
         /\ textPolicy' = TextPolicyOf(b)
         /\ cardUrl' = url
         /\ pc' = AfterDispatch(b, url)
         /\ result' = IF b = "noop" THEN "undefined" ELSE result
  /\ UNCHANGED <<props, options, upc, logins, nBlobs, lastBlob, ogData,
                 thumb, externalEmbed, sent, actions, failures, backendUri, tvars, ivars, fvars>>

\* A native action or quote post: this.#client(), getPost (which logs in
\* again), then the transport call. n is the number of logins made before
\* the call failed.
NativeFails ==
  \E n \in {1, 2} :
    /\ logins' = logins + n
    /\ \/ Fail("login")
       \/ n = 2 /\ Fail("getPost")
       \/ n = 2 /\ Fail("transport")
    /\ PostThrows
    /\ UNCHANGED <<sent, actions, backendUri>>

postLike ==
  /\ pc = "like"
  /\ \/ NativeFails
     \/ \E uri \in BackendUris :
          /\ logins' = logins + 2
          /\ actions' = [actions EXCEPT !.likes = @ + 1]
          /\ backendUri' = uri
          /\ result' = uriToPostUrl(ProfileUrl, uri)
          /\ pc' = "done"
          /\ UNCHANGED <<sent, failures>>
  /\ UNCHANGED <<props, options, upc, nBlobs, lastBlob, branch, textPolicy,
                 cardUrl, ogData, thumb, externalEmbed, tvars, ivars, fvars>>

postRepost ==
  /\ pc = "repost"
  /\ \/ NativeFails
     \/ \E uri \in BackendUris :
          /\ logins' = logins + 2
          /\ actions' = [actions EXCEPT !.reposts = @ + 1]
          /\ backendUri' = uri
          /\ result' = uriToPostUrl(ProfileUrl, uri)
          /\ pc' = "done"
          /\ UNCHANGED <<sent, failures>>
  /\ UNCHANGED <<props, options, upc, nBlobs, lastBlob, branch, textPolicy,
                 cardUrl, ogData, thumb, externalEmbed, tvars, ivars, fvars>>

postQuotePost ==
  /\ pc = "quote"
  /\ \/ NativeFails
     \/ \E uri \in BackendUris :
          /\ logins' = logins + 2
          /\ actions' = [actions EXCEPT !.posts = @ + 1]
          /\ sent' = [kind |-> "quote", textPolicy |-> textPolicy,
                      embed |-> QuoteEmbed(props.repostOf, Images)]
          /\ backendUri' = uri
          /\ result' = uriToPostUrl(ProfileUrl, uri)
          /\ pc' = "done"
          /\ UNCHANGED failures
  /\ UNCHANGED <<props, options, upc, nBlobs, lastBlob, branch, textPolicy,
                 cardUrl, ogData, thumb, externalEmbed, tvars, ivars, fvars>>

\* createExternalEmbed, first await: fetchOpenGraphData never throws; a
\* failed fetch yields the fallback value.
FetchOpenGraph ==
  /\ pc = "card"
  /\ \/ /\ ogData' = OgFallback(cardUrl)
        /\ Fail("metadata")
     \/ /\ ogData' \in OgFromPage(cardUrl)
        /\ UNCHANGED failures
  /\ pc' = IF ogData'.imageUrl # "" THEN "thumb" ELSE "default"
  /\ UNCHANGED <<props, options, upc, logins, nBlobs, lastBlob, branch,
                 textPolicy, cardUrl, thumb, externalEmbed, sent, actions,
                 result, backendUri, tvars, ivars, fvars>>

\* Mutant: uploadImageFromUrl lets the error through.
OgImageErrorRethrown == "throw"

\* uploadImageFromUrl's catch block: it logs the error and returns null.
OgImageErrorOutcome == "null"

\* createExternalEmbed's inner catch block: it logs the error and goes on
\* without a thumb.
DefaultThumbErrorOutcome == "null"

\* An enrichment step failed: what its catch block makes of the error.
Recover(outcome, next) ==
  IF outcome = "null"
    THEN pc' = next /\ UNCHANGED result
    ELSE PostThrows

\* uploadImageFromUrl(ogData.imageUrl): log in, fetch the image, pass it
\* through getPostImage, upload the blob; null on any failure.
UploadOgImage ==
  /\ pc = "thumb"
  /\ logins' = logins + 1
  /\ \/ /\ Fail("ogImage")
        /\ Recover(OgImageErrorOutcome, "default")
        /\ UNCHANGED <<thumb, nBlobs, lastBlob>>
     \/ \E len \in ImageSizes :
          \E b \in getPostImage(len) \ {Throws} :
            /\ lastBlob' = Blob("og", TRUE, TRUE, b)
            /\ nBlobs' = nBlobs + 1
            /\ thumb' = "og"
            /\ pc' = "default"
            /\ UNCHANGED <<failures, result>>
  /\ UNCHANGED <<props, options, upc, branch, textPolicy, cardUrl, ogData,
                 externalEmbed, sent, actions, backendUri, tvars, ivars, fvars>>

\* The rest of createExternalEmbed: when there is no thumb and the page has
\* a title of its own, generate the default image and upload it as it is;
\* then return the external embed.
FinishCard ==
  /\ pc = "default"
  /\ \/ /\ ~WantsDefaultThumb(cardUrl, ogData, thumb)
        /\ pc' = "send"
        /\ UNCHANGED <<thumb, logins, nBlobs, lastBlob, failures, result>>
     \/ /\ WantsDefaultThumb(cardUrl, ogData, thumb)
        /\ \E n \in {0, 1} :
             /\ logins' = logins + n
             /\ Fail("defaultThumb")
             /\ Recover(DefaultThumbErrorOutcome, "send")
             /\ UNCHANGED <<thumb, nBlobs, lastBlob>>
     \/ /\ WantsDefaultThumb(cardUrl, ogData, thumb)
        /\ \E png \in ImageSizes :
             /\ logins' = logins + 1
             /\ lastBlob' = Blob("default", TRUE, FALSE, png)
             /\ nBlobs' = nBlobs + 1
             /\ thumb' = "default"
             /\ pc' = "send"
             /\ UNCHANGED <<failures, result>>
  /\ externalEmbed' = ExternalCard(cardUrl, ogData, thumb')
  /\ UNCHANGED <<props, options, upc, branch, textPolicy, cardUrl, ogData,
                 sent, actions, backendUri, tvars, ivars, fvars>>

\* postPost(richText, { images, externalEmbed }).
postPost ==
  /\ pc = "send"
  /\ logins' = logins + 1
  /\ \/ /\ Fail("login") \/ Fail("transport")
        /\ PostThrows
        /\ UNCHANGED <<sent, actions, backendUri>>
     \/ \E uri \in BackendUris :
          /\ actions' = [actions EXCEPT !.posts = @ + 1]
          /\ sent' = [kind |-> "post", textPolicy |-> textPolicy,
                      embed |-> SelectEmbed(Images, externalEmbed)]
          /\ backendUri' = uri
          /\ result' = uriToPostUrl(ProfileUrl, uri)
          /\ pc' = "done"
          /\ UNCHANGED failures
  /\ UNCHANGED <<props, options, upc, nBlobs, lastBlob, branch, textPolicy,
                 cardUrl, ogData, thumb, externalEmbed, tvars, ivars, fvars>>

Init == InitPost

Next ==
  \/ Login
  \/ UploadLogin
  \/ UploadTransfer
  \/ UploadsSettled
  \/ Dispatch
  \/ postLike
  \/ postRepost
  \/ postQuotePost
  \/ FetchOpenGraph
  \/ UploadOgImage
  \/ FinishCard
  \/ postPost

Spec == Init /\ [][Next]_vars

(***************************************************************************)
(* Claims about post() (checked under Spec).                               *)
(***************************************************************************)
Done == pc = "done"

Threw == result = "threw"

\* A post, like or repost was accepted by the backend.
Syndicated == actions # NoActions

\* C4: every image blob post() uploads (a photo, a fetched OG thumbnail, a
\* generated default thumbnail) has passed through getPostImage and is at
\* most 1 MiB when uploadBlob is called.
C4_ImageBlobsCompressed ==
  (lastBlob.src # "none" /\ lastBlob.image) =>
    lastBlob.viaGetPostImage /\ lastBlob.bytes <= MAX_SIZE

\* C5: the uploads of the photos (at most the first 4, one concurrent batch)
\* have all completed successfully before any post, like or repost is
\* issued; if any upload fails, post() fails and nothing is sent.
C5_UploadsBeforeActions ==
  /\ upc.login + upc.transfer + upc.done + upc.failed <= MaxImages
  /\ pc \notin {"start", "done"} =>
       upc.login + upc.transfer + upc.done + upc.failed
         = Min(props.nPhotos, MaxImages)
  /\ (Syndicated \/ pc \notin {"start", "uploads", "done"}) =>
       upc.done = Min(props.nPhotos, MaxImages)
  /\ upc.failed > 0 =>
       /\ ~Syndicated
       /\ pc \in {"uploads", "done"}
       /\ Done => Threw

\* A post sent after the four uploads of a five-photo post completed.
C5_Witness ==
  /\ Done
  /\ props.nPhotos = MaxImages + 1
  /\ upc.done = MaxImages
  /\ actions.posts = 1
  /\ nBlobs >= MaxImages

Enrichment == {"metadata", "ogImage", "defaultThumb"}

PolicyNoop ==
  \/ /\ props.repostOf = ""
     /\ props.likeOf # ""
     /\ ~isSameOrigin(props.likeOf, ProfileUrl)
     /\ ~options.syndicateExternalLikes
  \/ /\ props.repostOf # ""
     /\ ~isSameOrigin(props.repostOf, ProfileUrl)
     /\ ~options.syndicateExternalReposts

TargetUrl ==
  CASE branch = "externalRepost" -> props.repostOf
    [] branch = "externalLike" -> props.likeOf
    [] branch = "bookmark" -> props.bookmarkOf
    [] OTHER -> ""

CardBranch == branch \in {"bookmark", "externalLike", "externalRepost"}

IsExternalCard(embed, url) ==
  embed.type = "app.bsky.embed.external" /\ embed.uri = url

IsGallery(embed, n) ==
  embed.type = "app.bsky.embed.images" /\ embed.images = n

\* C8 as stated: on the bookmark, external-like and external-repost
\* branches, with or without photos, the embed of the outbound post is an
\* ExternalCard whose uri is the bookmarked, liked or reposted URL.
C8_CardOnMarkerBranches ==
  (sent.kind = "post" /\ CardBranch) => IsExternalCard(sent.embed, TargetUrl)

\* C8 as amended: on the bookmark, external-like and external-repost
\* branches the card over the bookmarked, liked or reposted URL is always
\* built, and it is the embed of the outbound post when no photo is
\* supplied; when photos are supplied the embed is the ImageGallery of the
\* uploaded photos instead (images take priority over the card).
C8_CardUnlessPhotos ==
  (sent.kind = "post" /\ CardBranch) =>
    /\ IsExternalCard(externalEmbed, TargetUrl)
    /\ props.nPhotos = 0 => sent.embed = externalEmbed
    /\ props.nPhotos > 0 =>
         IsGallery(sent.embed, Min(props.nPhotos, MaxImages))

\* A bookmark with photos, sent with a gallery.
C8_Witness ==
  /\ sent.kind = "post"
  /\ branch = "bookmark"
  /\ props.nPhotos > 0
  /\ IsGallery(sent.embed, Min(props.nPhotos, MaxImages))

\* C9: a post without repost-of, like-of and bookmark-of carries exactly one
\* embed: an ImageGallery, and no card is built, when a photo is supplied;
\* otherwise an ExternalCard over the URL getExternalUrl returns, or over
\* the permalink when it returns none.
C9_RegularPostEmbed ==
  (sent.kind = "post" /\ props.repostOf = "" /\ props.likeOf = ""
     /\ props.bookmarkOf = "") =>
    /\ branch = "regular"
    /\ sent.embed.type # "none"
    /\ props.nPhotos > 0 =>
         /\ IsGallery(sent.embed, Min(props.nPhotos, MaxImages))
         /\ externalEmbed = NoEmbed
         /\ cardUrl = ""
    /\ props.nPhotos = 0 =>
         /\ props.inReplyTo # "" => IsExternalCard(sent.embed, props.inReplyTo)
         /\ (props.inReplyTo = "" /\ CollectedUrls(props) # <<>>) =>
              IsExternalCard(sent.embed, ContentLink)
         /\ (props.inReplyTo = "" /\ CollectedUrls(props) = <<>>) =>
              IsExternalCard(sent.embed, props.url)

\* A text-only post without any link, sent with a card over its permalink.
C9_Witness ==
  /\ sent.kind = "post"
  /\ branch = "regular"
  /\ props.nPhotos = 0
  /\ getExternalUrl(props) = ""
  /\ IsExternalCard(sent.embed, Permalink)

\* C10: with repost-of same-origin with the profile URL, non-empty content
\* gives exactly one quote post (QuotedRecordWithGallery with photos,
\* QuotedRecord without) with the text of getPostText; no content (absent,
\* or present with empty html and text) gives exactly one native repost and
\* no text post.
C10_QuoteOrNativeRepost ==
  (Done /\ Syndicated /\ props.repostOf # ""
     /\ isSameOrigin(props.repostOf, ProfileUrl)) =>
    IF props.content.present /\ props.content.filled
      THEN /\ actions = [NoActions EXCEPT !.posts = 1]
           /\ sent.kind = "quote"
           /\ sent.textPolicy = "getPostText"
           /\ sent.embed.uri = props.repostOf
           /\ sent.embed.type =
                IF props.nPhotos > 0 THEN "app.bsky.embed.recordWithMedia"
                ELSE "app.bsky.embed.record"
      ELSE /\ actions = [NoActions EXCEPT !.reposts = 1]
           /\ sent = NotSent

\* C15: within one post() call the session is acquired (agent.login) exactly
\* once, whatever the branch, the number of photos and the thumbnail.
C15_OneLoginPerCall ==
  /\ logins <= 1
  /\ Done => logins = 1

\* C17: when post() resolves to a native like, a native repost or a policy
\* no-op, no text post is created and no blob is uploaded, even when the
\* properties carry photos.
C17_NativeActionsSendNothingElse ==
  (Done /\ branch \in {"like", "repost", "noop"}) =>
    /\ actions.posts = 0
    /\ sent = NotSent
    /\ nBlobs = 0

(***************************************************************************)
(* Claims about the text composer (checked under SpecText).                *)
(***************************************************************************)
Composed == tOp # "none"

\* The reference line the truncation step keeps: the permalink line for
\* getPostText, the like marker line for getLikePostText.
ReferenceSuffix ==
  IF tOp = "like" THEN LikeSuffix(tLiked) ELSE PostSuffix(tProps)

\* The content the truncation step cuts.
CutBase ==
  IF tOp = "like" THEN RemoveFirst(tSource, ReferenceSuffix) ELSE tSource

CutLength == MaxTextLength - Len(ReferenceSuffix) - 3

TruncationPath == Composed /\ Len(tSource) > MaxTextLength

\* C1: the text returned by getPostText and by getLikePostText is never
\* longer than 300 characters, on the truncation path and on the path where
\* the permalink or marker line is appended without truncation.
C1_TextAtMost300 == Composed => Len(tResult) <= MaxTextLength

\* C2 as stated: whenever the text before truncation is longer than 300
\* characters, the composed text has length exactly 300 and ends with "..."
\* followed by the preserved reference line.
C2_TruncatedExactly300 ==
  TruncationPath =>
    /\ Len(tResult) = MaxTextLength
    /\ EndsWith(tResult, Ellipsis \o ReferenceSuffix)

\* C2 as amended: whenever the text before truncation is longer than 300
\* characters, the composed text ends with "..." followed by the preserved
\* reference line; when the reference line leaves room (it and the ellipsis
\* fit in 300) the length is at most 300, and exactly 300 only if the cut
\* content neither starts nor ends with white space (trim() shortens it
\* otherwise); when the reference line leaves no room the text is longer
\* than 300.
C2_TruncatedKeepsReference ==
  TruncationPath =>
    /\ EndsWith(tResult, Ellipsis \o ReferenceSuffix)
    /\ CutLength >= 0 =>
         LET cut == SubSeq(CutBase, 1, CutLength)
         IN  /\ Len(cut) = CutLength
             /\ Len(tResult) <= MaxTextLength
             /\ Len(tResult) = MaxTextLength <=>
                  (cut = <<>> \/ (~IsSpace(cut[1]) /\ ~IsSpace(cut[Len(cut)])))
    /\ CutLength < 0 => Len(tResult) > MaxTextLength

\* A truncation whose cut ends on white space: the result is shorter than 300.
C2_Witness ==
  /\ TruncationPath
  /\ CutLength > 0
  /\ Len(tResult) < MaxTextLength
  /\ EndsWith(tResult, Ellipsis \o ReferenceSuffix)

(***************************************************************************)
(* constrainImage(buffer, maxBytes, quality = 90) on a valid source image. *)
(***************************************************************************)
InitImage ==
  /\ iMaxBytes \in Budgets
  /\ iQuality = InitialQuality
  /\ iPc = "encode"
  /\ iSize = 0
  /\ iEncodes = 0
  /\ TextIdle
  /\ PostIdle
  /\ FuncIdle

\* One call: re-encode at iQuality, then recurse with a lower quality when
\* the output is over maxBytes, and return the output otherwise.
ConstrainEncode ==
  /\ iPc = "encode"
  /\ JpegQualityAccepted(iQuality)
  /\ \E compressed \in OutputSizes :
       /\ iSize' = compressed
       /\ iEncodes' = iEncodes + 1
       /\ IF compressed > iMaxBytes
            THEN iQuality' = LowerQuality(iQuality) /\ iPc' = "encode"
            ELSE iQuality' = iQuality /\ iPc' = "returned"
  /\ UNCHANGED <<iMaxBytes, tvars, pvars, fvars>>

\* One call whose quality the encoder rejects: the call throws.
ConstrainReject ==
  /\ iPc = "encode"
  /\ ~JpegQualityAccepted(iQuality)
  /\ iPc' = "raised"
  /\ UNCHANGED <<iMaxBytes, iQuality, iSize, iEncodes, tvars, pvars, fvars>>

NextImage == ConstrainEncode \/ ConstrainReject

SpecImage == InitImage /\ [][NextImage]_vars

\* C3 as stated: constrainImage terminates after a bounded number of
\* re-encodes by returning a buffer of at most maxBytes; it never raises,
\* also when the output at the lowest quality is still over maxBytes.
C3_ConstrainAlwaysReturns ==
  /\ iPc # "raised"
  /\ iPc = "returned" => iSize <= iMaxBytes
  /\ iPc = "encode" => ENABLED ConstrainEncode

\* The re-encodes constrainImage can make: qualities 90, 85, ..., 5.
MaxEncodes == InitialQuality \div QualityStep

\* C3 as amended: constrainImage terminates after at most 18 re-encodes
\* (qualities 90 down to 5, strictly decreasing); it returns a buffer of at
\* most maxBytes as soon as one output fits, and otherwise, when the output
\* at quality 5 is still over maxBytes, it raises (the encoder rejects
\* quality 0) instead of returning.
C3_ConstrainBounded ==
  /\ iEncodes <= MaxEncodes
  /\ iPc = "encode" =>
       /\ iQuality = InitialQuality - QualityStep * iEncodes
       /\ iEncodes > 0 => iSize > iMaxBytes
       /\ ENABLED NextImage
  /\ iPc = "returned" => iSize <= iMaxBytes /\ iEncodes >= 1
  /\ iPc = "raised" =>
       /\ iEncodes = MaxEncodes
       /\ iQuality = 0
       /\ iSize > iMaxBytes

\* The eighteenth output is still over budget and the next call raises.
C3_Witness == iPc = "raised" /\ iEncodes = MaxEncodes /\ iSize > iMaxBytes


(***************************************************************************)
(* getExternalUrl(properties), called without ownDomain.                   *)
(***************************************************************************)
InitHarvest ==
  /\ hProps \in HarvestInputs
  /\ hPc = "ready"
  /\ hResult = ""
  /\ OgIdle
  /\ WrapIdle
  /\ TextIdle
  /\ ImageIdle
  /\ PostIdle

CallGetExternalUrl ==
  /\ hPc = "ready"
  /\ hResult' = getExternalUrl(HarvestProperties(hProps))
  /\ hPc' = "done"
  /\ UNCHANGED <<hProps, ovars, wvars, tvars, ivars, pvars>>

NextHarvest == CallGetExternalUrl

SpecHarvest == InitHarvest /\ [][NextHarvest]_vars

HasMarker ==
  hProps.likeOf # "" \/ hProps.bookmarkOf # "" \/ hProps.inReplyTo # ""

\* C11 as stated: with a marker present getExternalUrl returns a marker
\* verbatim, without scanning the content, choosing bookmark-of over like-of
\* over in-reply-to.
C11_BookmarkOverLike ==
  (hPc = "done" /\ HasMarker) =>
    hResult = IF hProps.bookmarkOf # "" THEN hProps.bookmarkOf
              ELSE IF hProps.likeOf # "" THEN hProps.likeOf
              ELSE hProps.inReplyTo

\* C11 as amended: with a marker present getExternalUrl returns a marker
\* verbatim, whatever the content holds, choosing like-of over bookmark-of
\* over in-reply-to.
C11_LikeOverBookmark ==
  (hPc = "done" /\ HasMarker) =>
    hResult = IF hProps.likeOf # "" THEN hProps.likeOf
              ELSE IF hProps.bookmarkOf # "" THEN hProps.bookmarkOf
              ELSE hProps.inReplyTo

\* All three markers and a link in the content: the liked URL is returned.
C11_Witness ==
  /\ hPc = "done"
  /\ hProps.likeOf # ""
  /\ hProps.bookmarkOf # ""
  /\ hProps.inReplyTo # ""
  /\ HrefMatches(hProps.html, 1) # <<>>
  /\ hResult = hProps.likeOf

\* The content is one anchor and nothing else: the single URL it holds is
\* the value of the href attribute.
SingleAnchor(tail) == hProps.html = Anchor(tail) /\ hProps.text = <<>>

\* C12: without marker (and without ownDomain) getExternalUrl returns the
\* last element of hrefs ++ bare URLs of the HTML ++ bare URLs of the text,
\* deduplicated keeping first positions; null exactly when that list is
\* empty; and the URL itself when the content holds a single URL.
C12_LastOfDeduplicated ==
  (hPc = "done" /\ ~HasMarker) =>
    LET urls == Dedupe(HrefMatches(hProps.html, 1)
                         \o extractUrlsFromText(hProps.html)
                         \o extractUrlsFromText(hProps.text))
    IN  /\ urls # <<>> => hResult = urls[Len(urls)]
        /\ urls = <<>> <=> hResult = ""
        /\ \A tail \in UrlTails :
             SingleAnchor(tail) => hResult = Join(BareUrl(tail))


(***************************************************************************)
(* fetchOpenGraphData(url) as a call of its own.                           *)
(***************************************************************************)
InitOg ==
  /\ oUrl \in OgUrlLens
  /\ oPc = "fetch"
  /\ oOutcome = "none"
  /\ oPage = NoPage
  /\ oResult = OgMetadataFallback(0)
  /\ HarvestIdle
  /\ WrapIdle
  /\ TextIdle
  /\ ImageIdle
  /\ PostIdle

\* await fetch(url, ...): it rejects (a transport error, or a timeout where
\* the fetch in use honours the timeout option), or gives a response that
\* is not ok, or one that is.
OgFetch ==
  /\ oPc = "fetch"
  /\ \/ \E why \in {"transport", "timeout"} :
          /\ oOutcome' = why
          /\ oPc' = OgCatch(oUrl).pc
          /\ oResult' = OgCatch(oUrl).result
     \/ /\ oOutcome' = "notOk"
        /\ oPc' = "returned"
        /\ oResult' = OgMetadataFallback(oUrl)
     \/ /\ oOutcome' = "ok"
        /\ oPc' = "parse"
        /\ UNCHANGED oResult
  /\ UNCHANGED <<oUrl, oPage, hvars, wvars, tvars, ivars, pvars>>

\* The rest of the try block: reading the body or parsing it throws, or the
\* selectors find the fields of a page; resolving a relative og:image
\* throws when new URL rejects it.
OgParse ==
  /\ oPc = "parse"
  /\ \/ /\ oOutcome' = "parseError"
        /\ oPc' = OgCatch(oUrl).pc
        /\ oResult' = OgCatch(oUrl).result
        /\ UNCHANGED oPage
     \/ \E page \in OgPages :
          /\ oPage' = page
          /\ IF page.ogImage = "malformed"
               THEN /\ oOutcome' = "parseError"
                    /\ oPc' = OgCatch(oUrl).pc
                    /\ oResult' = OgCatch(oUrl).result
               ELSE /\ oOutcome' = "parsed"
                    /\ oPc' = "returned"
                    /\ oResult' = OgMetadataOfPage(oUrl, page)
  /\ UNCHANGED <<oUrl, hvars, wvars, tvars, ivars, pvars>>

NextOg == OgFetch \/ OgParse

SpecOg == InitOg /\ [][NextOg]_vars

OgFailures == {"transport", "timeout", "notOk", "parseError"}

\* C13: fetchOpenGraphData never raises; on a transport error, a timeout, a
\* response that is not ok or a parse error it returns exactly
\* {title: url, description: "", imageUrl: null}.
C13_FetchNeverRaises ==
  /\ oPc # "raised"
  /\ (oPc = "returned" /\ oOutcome \in OgFailures) =>
       /\ oResult.title = Str("url", oUrl)
       /\ oResult.description.len = 0
       /\ oResult.imageUrl = "null"
  /\ oOutcome \in OgFailures => oPc = "returned"

\* A page was fetched but resolving its og:image threw: the fallback value.
C13_Witness ==
  /\ oPc = "returned"
  /\ oOutcome = "parseError"
  /\ oPage.ogImage = "malformed"
  /\ oPage.ogTitle > 0
  /\ oResult = OgMetadataFallback(oUrl)

\* C14: every Metadata value fetchOpenGraphData returns, from a page or as
\* fallback, has a title of at most 300 characters and a description of at
\* most 1000 characters.
C14_MetadataWithinLimits ==
  oPc = "returned" =>
    /\ oResult.title.len <= TitleLimit
    /\ oResult.description.len <= DescriptionLimit


(***************************************************************************)
(* wrapText(title, 35, 4) as a call of its own.                            *)
(***************************************************************************)
InitWrap ==
  /\ wTitle \in Titles
  /\ wPc = "ready"
  /\ wLines = <<>>
  /\ HarvestIdle
  /\ OgIdle
  /\ TextIdle
  /\ ImageIdle
  /\ PostIdle

CallWrapText ==
  /\ wPc = "ready"
  /\ wLines' = wrapText(wTitle)
  /\ wPc' = "done"
  /\ UNCHANGED <<wTitle, hvars, ovars, tvars, ivars, pvars>>

NextWrap == CallWrapText

SpecWrap == InitWrap /\ [][NextWrap]_vars

\* The title has more words than the returned lines hold.
TitleCut ==
  Cardinality({i \in 1..Len(wTitle) : wTitle[i] # <<>>}) > WordCount(wLines)

\* C16: wrapText(title, 35, 4) returns at most 4 lines of at most 35
\* characters each, also for titles with a word over 35 characters at any
\* position, and for titles cut at the fourth line, whose last line then
\* ends with "...".
C16_LinesWithinLimits ==
  wPc = "done" =>
    /\ Len(wLines) <= MaxLines
    /\ \A i \in 1..Len(wLines) : Len(wLines[i]) <= MaxCharsPerLine
    /\ (Len(wLines) = MaxLines /\ TitleCut) =>
         EndsWith(wLines[MaxLines], Ellipsis)

====
